---- MODULE Spec2Model ----
(***************************************************************************)
(* Model of chatnoir_pyterrier/retrieve.py: the Feature flag enumeration,  *)
(* ChatNoirRetrieve._merge_result, ChatNoirRetrieve._transform_query,      *)
(* ChatNoirRetrieve.transform and ChatNoirRetrieve.__hash__ / __eq__.      *)
(*                                                                         *)
(* The external search client is the environment: a call to search or      *)
(* search_phrases is logged in `requests` with exactly the keyword         *)
(* arguments the code passes, and answers with a single-pass stream that   *)
(* is stored in `served` together with the number of elements pulled.      *)
(***************************************************************************)
EXTENDS Integers, Sequences, FiniteSets, TLC

(* ------------------------------ bounds --------------------------------- *)
MaxStream == 2      \* longest result stream the client serves
MaxTopics == 3      \* most rows of an input table
MaxCap == 2         \* largest configured num_results
MaxPageSize == 2    \* largest configured page_size
MaxDecl == 2        \* most members of a set-valued index / features

(* ------------------------- sequence helpers ---------------------------- *)
Take(s, n) == SubSeq(s, 1, IF n < Len(s) THEN n ELSE Len(s))

Min(a, b) == IF a <= b THEN a ELSE b

Elems(s) == {s[i] : i \in 1..Len(s)}

RECURSIVE Flatten(_)
Flatten(ss) == IF ss = <<>> THEN <<>> ELSE Head(ss) \o Flatten(Tail(ss))

NoDup(s) == \A i, j \in 1..Len(s) : s[i] = s[j] => i = j

SeqsUpTo(S, n) == UNION {[1..k -> S] : k \in 0..n}

(* ------------------------------ Feature -------------------------------- *)
\* A Feature value is the set of its atomic flags (its bit mask).
Atoms ==
    {"UUID", "INDEX", "TARGET_HOSTNAME", "TARGET_URI", "PAGE_RANK",
     "SPAM_RANK", "TITLE_HIGHLIGHTED", "TITLE_TEXT", "SNIPPET_HIGHLIGHTED",
     "SNIPPET_TEXT", "EXPLANATION", "HTML", "HTML_PLAIN"}

NONE == {}
UUID == {"UUID"}
INDEX == {"INDEX"}
TARGET_HOSTNAME == {"TARGET_HOSTNAME"}
TARGET_URI == {"TARGET_URI"}
TARGET == TARGET_HOSTNAME \cup TARGET_URI
EXPLANATION == {"EXPLANATION"}

\* A configured value that is either one enum member or a Python set of
\* members; `items` lists the members of a set in declaration order.
One(x) == [isSet |-> FALSE, items |-> <<x>>]

SetOf(s) == [isSet |-> TRUE, items |-> s]

\* `flag in self.features`: Flag.__contains__ on a flag, set membership on
\* a set.
FeatureIn(flag, features) ==
    IF features.isSet
    THEN flag \in Elems(features.items)
    ELSE flag \subseteq features.items[1]

\* The column written for each atomic flag.
FeatureColumn ==
    [a \in Atoms |->
        CASE a = "UUID" -> "uuid"
          [] a = "INDEX" -> "index"
          [] a = "TARGET_HOSTNAME" -> "target_hostname"
          [] a = "TARGET_URI" -> "target_uri"
          [] a = "PAGE_RANK" -> "page_rank"
          [] a = "SPAM_RANK" -> "spam_rank"
          [] a = "TITLE_HIGHLIGHTED" -> "title_highlighted"
          [] a = "TITLE_TEXT" -> "title_text"
          [] a = "SNIPPET_HIGHLIGHTED" -> "snippet_highlighted"
          [] a = "SNIPPET_TEXT" -> "snippet_text"
          [] a = "EXPLANATION" -> "explanation"
          [] a = "HTML" -> "html"
          [] a = "HTML_PLAIN" -> "html_plain"]

\* reduce(lambda a, b: a | b, self.features) over a non-empty set.
RECURSIVE ReduceOr(_)
ReduceOr(s) == IF Len(s) = 1 THEN s[1] ELSE s[1] \cup ReduceOr(Tail(s))

(* --------------------------- _merge_result ----------------------------- *)
\* The feature columns _merge_result writes for the configured features.
MergedColumns(features) ==
    {FeatureColumn[a] : a \in {x \in Atoms : FeatureIn({x}, features)}}

\* The value of a result attribute is abstracted to the attribute's column.
MergeResult(features, row, result) ==
    [c \in MergedColumns(features) |-> c]
        @@ ("docno" :> result.trec_id @@ "score" :> result.score)
        @@ row

(* ------------------------- _transform_query ---------------------------- *)
NoCap == [isNone |-> TRUE, n |-> 0]

Cap(n) == [isNone |-> FALSE, n |-> n]

\* page_size handed to the client.
PageSize(c) ==
    IF ~c.num_results.isNone THEN Min(c.page_size, c.num_results.n)
    ELSE c.page_size

\* The keyword arguments of the search call.
SearchRequest(c, query, features) ==
    IF ~c.phrases
    THEN [op |-> "search", api_key |-> c.api_key, query |-> query,
          index |-> c.index, explain |-> EXPLANATION \subseteq features,
          page_size |-> PageSize(c)]
    ELSE [op |-> "search_phrases", api_key |-> c.api_key, query |-> query,
          index |-> c.index, slop |-> c.slop,
          explain |-> EXPLANATION \subseteq features,
          page_size |-> PageSize(c)]

\* Variant: the cap is tested after the pull instead of before it.
IsliceDoneLate(c, n) == ~c.num_results.isNone /\ n > c.num_results.n

\* islice(results, num_results) stops before pulling once it has yielded
\* num_results elements.
IsliceDone(c, n) == ~c.num_results.isNone /\ n >= c.num_results.n

\* Variant: results without TREC id are dropped whatever filter_unknown is.
KeepsKnown(c, result) == result.trec_id # "None"

\* The filter generator keeps a result unless filter_unknown is set and
\* its TREC id is missing.
Keeps(c, result) == ~(c.filter_unknown /\ result.trec_id = "None")

(* ----------------------------- transform ------------------------------- *)
OneQueryError == "RuntimeError: Can only transform one query at a time."

NotFrameError == "RuntimeError: Can only transform dataframes."

ColumnsError == "RuntimeError: Needs qid and query columns."

\* Variant: the column check is missing.
InputErrorFrameOnly(t) == IF ~t.isFrame THEN NotFrameError ELSE "none"

\* Lines 168-172: the input checks of transform.
InputError(t) ==
    IF ~t.isFrame THEN NotFrameError
    ELSE IF ~({"qid", "query"} \subseteq t.columns) THEN ColumnsError
    ELSE "none"

RECURSIVE FirstSeen(_)
FirstSeen(s) ==
    IF s = <<>> THEN <<>>
    ELSE LET rest == FirstSeen(SubSeq(s, 1, Len(s) - 1))
         IN IF s[Len(s)] \in Elems(rest) THEN rest
            ELSE Append(rest, s[Len(s)])

\* topics.groupby(by=["qid"], sort=False): one sub-table per query id, in
\* first-seen order, rows in table order.
GroupByQid(rows) ==
    LET qids == FirstSeen([i \in 1..Len(rows) |-> rows[i].qid])
    IN [g \in 1..Len(qids) |->
            SelectSeq(rows, LAMBDA r : r.qid = qids[g])]

\* sort_values(by=["score"], ascending=False), by insertion.
RECURSIVE SortValues(_)
SortValues(rows) ==
    IF rows = <<>> THEN <<>>
    ELSE LET rest == SortValues(Tail(rows))
             k == Cardinality({i \in 1..Len(rest) :
                                 rest[i].score > Head(rows).score})
         IN SubSeq(rest, 1, k) \o <<Head(rows)>>
                \o SubSeq(rest, k + 1, Len(rest))

FIRST_RANK == 0

\* add_ranks: rank(method="first", ascending=False) of score within the
\* rows of the same qid, counted from FIRST_RANK.
AddRanks(rows) ==
    [i \in 1..Len(rows) |->
        ("rank" :>
            FIRST_RANK
            + Cardinality({j \in 1..Len(rows) :
                /\ rows[j].qid = rows[i].qid
                /\ \/ rows[j].score > rows[i].score
                   \/ rows[j].score = rows[i].score /\ j < i}))
        @@ rows[i]]

\* Variant: the ranks are never assigned.
RetrievedUnranked(rows) == rows

\* Lines 194-198: the table transform returns for the concatenated rows.
\* The sorted copy is computed and dropped.
Retrieved(rows) ==
    LET sorted == SortValues(rows)
    IN AddRanks(rows)

(* ------------------------- __eq__ and __hash__ ------------------------- *)
\* Index members in the order of their names.
IndexNames == <<"ClueWeb09", "ClueWeb12", "ClueWeb22">>

NameRank(x) == CHOOSE i \in 1..Len(IndexNames) : IndexNames[i] = x

\* sorted(self.index, key=lambda index: index.name)
RECURSIVE SortedByName(_)
SortedByName(s) ==
    IF s = <<>> THEN <<>>
    ELSE LET rest == SortedByName(Tail(s))
             k == Cardinality({i \in 1..Len(rest) :
                                 NameRank(rest[i]) < NameRank(Head(s))})
         IN SubSeq(rest, 1, k) \o <<Head(s)>>
                \o SubSeq(rest, k + 1, Len(rest))

\* Two field values are equal as Python values: a set equals a set with
\* the same members, an enum member equals itself only.
FieldEq(x, y) == x.isSet = y.isSet /\ Elems(x.items) = Elems(y.items)

\* The __eq__ generated by @dataclass: field by field.
Eq(a, b) ==
    /\ a.api_key = b.api_key
    /\ FieldEq(a.index, b.index)
    /\ a.phrases = b.phrases
    /\ a.slop = b.slop
    /\ FieldEq(a.features, b.features)
    /\ a.filter_unknown = b.filter_unknown
    /\ a.num_results = b.num_results
    /\ a.page_size = b.page_size
    /\ a.retries = b.retries
    /\ a.backoff_seconds = b.backoff_seconds
    /\ a.verbose = b.verbose

HashRaises(e) == [ok |-> FALSE, error |-> e, key |-> <<>>]

\* __hash__, lines 200-221.  The hash value is abstracted to the hashed
\* tuple.  Feature members have no order, so sorting two or more of them
\* raises; a list inside the tuple is unhashable.
Hash(c) ==
    IF c.features.isSet /\ Len(c.features.items) >= 2
    THEN HashRaises("TypeError: '<' not supported")
    ELSE IF c.features.isSet
    THEN HashRaises("TypeError: unhashable type: 'list'")
    ELSE [ok |-> TRUE, error |-> "none",
          key |-> <<c.api_key,
                    IF c.index.isSet
                    THEN [kind |-> "tuple",
                          items |-> SortedByName(c.index.items)]
                    ELSE [kind |-> "member", items |-> c.index.items],
                    c.phrases, c.slop, c.features.items[1],
                    c.filter_unknown, c.num_results, c.page_size,
                    c.retries, c.backoff_seconds, c.verbose>>]

(* ------------------------------- state --------------------------------- *)
VARIABLES
    cfg,        \* the ChatNoirRetrieve instance
    topics,     \* the argument of transform
    pc,         \* position of the call
    groups,     \* query groups still to be transformed
    row,        \* topic row of the query being transformed
    rows,       \* rows merged so far for that query
    frames,     \* tables returned by _transform_query, in group order
    requests,   \* calls made to the external client
    served,     \* streams the client returned and how far each was pulled
    out,        \* the table transform returned
    err,        \* the error transform raised
    cfg2,       \* a second instance, for __eq__ / __hash__
    hashes      \* results of hash(cfg), hash(cfg2)

vars == <<cfg, topics, pc, groups, row, rows, frames, requests, served,
          out, err, cfg2, hashes>>

(* ------------------------------ inputs --------------------------------- *)
\* TREC id "None" is the missing id.
Results ==
    {[trec_id |-> "None", score |-> 2],
     [trec_id |-> "d1", score |-> 1],
     [trec_id |-> "d1", score |-> 2]}

Streams == SeqsUpTo(Results, MaxStream)

TopicRows ==
    {[qid |-> "q1", query |-> "t1"],
     [qid |-> "q2", query |-> "t2"]}

ColumnSets == {{"qid", "query"}, {"qid"}, {"query"}}

Restrict(f, S) == [x \in S |-> f[x]]

TopicsInputs ==
    {[isFrame |-> FALSE, columns |-> {}, rows |-> <<>>]}
    \cup {[isFrame |-> TRUE, columns |-> {"qid", "query"}, rows |-> rs] :
            rs \in SeqsUpTo(TopicRows, MaxTopics)}
    \cup {[isFrame |-> TRUE, columns |-> cs,
           rows |-> [i \in 1..Len(rs) |-> Restrict(rs[i], cs)]] :
            cs \in ColumnSets \ {{"qid", "query"}},
            rs \in SeqsUpTo({[qid |-> "q1", query |-> "t1"]}, 1)}

FeatureChoices ==
    {One(NONE), One(TARGET), SetOf(<<TARGET>>),
     SetOf(<<UUID, TARGET_HOSTNAME>>), SetOf(<<>>)}

Caps == {NoCap} \cup {Cap(n) : n \in 0..MaxCap}

Configs ==
    [api_key : {"key"},
     index : {One("ClueWeb12")},
     phrases : BOOLEAN,
     slop : {0},
     features : FeatureChoices,
     filter_unknown : BOOLEAN,
     num_results : Caps,
     page_size : {1, MaxPageSize},
     retries : {2},
     backoff_seconds : {3},
     verbose : {FALSE}]

NoHashes == <<>>

Init ==
    /\ cfg \in Configs
    /\ topics \in TopicsInputs
    /\ pc = "start"
    /\ groups = <<>>
    /\ row = <<>>
    /\ rows = <<>>
    /\ frames = <<>>
    /\ requests = <<>>
    /\ served = <<>>
    /\ out = <<>>
    /\ err = "none"
    /\ cfg2 = cfg
    /\ hashes = NoHashes

Raise(e) ==
    /\ pc' = "error"
    /\ err' = e

\* transform, lines 166-181: input checks, the empty table, grouping.
Transform ==
    /\ pc = "start"
    /\ IF InputError(topics) # "none"
       THEN Raise(InputError(topics)) /\ UNCHANGED groups
       ELSE IF Len(topics.rows) = 0
       THEN \* _transform_query(topics) on the empty table: line 107
            Raise(OneQueryError) /\ UNCHANGED groups
       ELSE IF "qid" \notin topics.columns
       THEN \* groupby on a column the table does not have
            Raise("KeyError: qid") /\ UNCHANGED groups
       ELSE /\ groups' = GroupByQid(topics.rows)
            /\ pc' = "apply"
            /\ UNCHANGED err
    /\ UNCHANGED <<cfg, topics, row, rows, frames, requests, served, out,
                   cfg2, hashes>>

\* _transform_query, lines 106-159, for the next group: the row count
\* check, the effective features, the search call.
TransformQuery ==
    /\ pc = "apply"
    /\ groups # <<>>
    /\ LET topic == Head(groups)
       IN IF Len(topic) # 1
          THEN /\ Raise(OneQueryError)
               /\ UNCHANGED <<row, requests, served>>
          ELSE IF "query" \notin DOMAIN topic[1]
          THEN \* row["query"], line 111
               /\ Raise("KeyError: query")
               /\ UNCHANGED <<row, requests, served>>
          ELSE IF cfg.features.isSet /\ cfg.features.items = <<>>
          THEN /\ Raise("TypeError: reduce() of empty iterable")
               /\ UNCHANGED <<row, requests, served>>
          ELSE LET features == IF cfg.features.isSet
                               THEN ReduceOr(cfg.features.items)
                               ELSE cfg.features.items[1]
               IN /\ row' = topic[1]
                  /\ requests' = Append(requests,
                        SearchRequest(cfg, topic[1].query, features))
                  /\ \E s \in Streams :
                        served' = Append(served, [items |-> s, pulled |-> 0])
                  /\ pc' = "iterate"
                  /\ UNCHANGED err
    /\ groups' = Tail(groups)
    /\ rows' = <<>>
    /\ UNCHANGED <<cfg, topics, frames, out, cfg2, hashes>>

\* One element pulled from the client's stream by the list comprehension
\* of lines 161-164, through islice and the filter generator.
NextResult ==
    /\ pc = "iterate"
    /\ ~IsliceDone(cfg, Len(rows))
    /\ LET cur == served[Len(served)]
       IN /\ cur.pulled < Len(cur.items)
          /\ served' = [served EXCEPT ![Len(served)].pulled = @ + 1]
          /\ rows' = IF Keeps(cfg, cur.items[cur.pulled + 1])
                     THEN Append(rows, MergeResult(cfg.features, row,
                                        cur.items[cur.pulled + 1]))
                     ELSE rows
    /\ UNCHANGED <<cfg, topics, pc, groups, row, frames, requests, out, err,
                   cfg2, hashes>>

\* The comprehension ends: islice is done or the stream is exhausted, and
\* _transform_query returns DataFrame(rows).
ReturnFrame ==
    /\ pc = "iterate"
    /\ \/ IsliceDone(cfg, Len(rows))
       \/ served[Len(served)].pulled = Len(served[Len(served)].items)
    /\ frames' = Append(frames, rows)
    /\ rows' = <<>>
    /\ pc' = "apply"
    /\ UNCHANGED <<cfg, topics, groups, row, requests, served, out, err,
                   cfg2, hashes>>

\* transform, lines 194-198, after the last group.
Finish ==
    /\ pc = "apply"
    /\ groups = <<>>
    /\ LET retrieved == Flatten(frames)
       IN IF retrieved = <<>>
          THEN \* no row, hence no score column to sort by
               Raise("KeyError: score") /\ UNCHANGED out
          ELSE /\ out' = Retrieved(retrieved)
               /\ pc' = "done"
               /\ UNCHANGED err
    /\ UNCHANGED <<cfg, topics, groups, row, rows, frames, requests, served,
                   cfg2, hashes>>

\* hash(cfg), then hash(cfg2).
CallHash ==
    /\ pc = "hash"
    /\ Len(hashes) < 2
    /\ hashes' = Append(hashes, Hash(IF Len(hashes) = 0 THEN cfg ELSE cfg2))
    /\ UNCHANGED <<cfg, topics, pc, groups, row, rows, frames, requests,
                   served, out, err, cfg2>>

Next == Transform \/ TransformQuery \/ NextResult \/ ReturnFrame \/ Finish

Spec == Init /\ [][Next]_vars

(* ------------------- two instances, compared and hashed ---------------- *)
NoDupSeqs(S, lo, hi) ==
    {s \in UNION {[1..k -> S] : k \in lo..hi} : NoDup(s)}

HashConfigs ==
    [api_key : {"key"},
     index : {One("ClueWeb12")}
             \cup {SetOf(s) : s \in NoDupSeqs(Elems(IndexNames), 1, MaxDecl)},
     phrases : {FALSE},
     slop : {0},
     features : {One(NONE), One(TARGET)}
                \cup {SetOf(s) : s \in NoDupSeqs({UUID, INDEX}, 0, MaxDecl)},
     filter_unknown : {FALSE},
     num_results : {Cap(MaxCap)},
     page_size : {MaxPageSize},
     retries : {2, 5},
     backoff_seconds : {3},
     verbose : {FALSE}]

InitHash ==
    /\ cfg \in HashConfigs
    /\ cfg2 \in HashConfigs
    /\ topics = [isFrame |-> FALSE, columns |-> {}, rows |-> <<>>]
    /\ pc = "hash"
    /\ groups = <<>>
    /\ row = <<>>
    /\ rows = <<>>
    /\ frames = <<>>
    /\ requests = <<>>
    /\ served = <<>>
    /\ out = <<>>
    /\ err = "none"
    /\ hashes = NoHashes

NextHash == CallHash

SpecHash == InitHash /\ [][NextHash]_vars

(* ------------------------------ properties ----------------------------- *)
ValidInput == topics.isFrame /\ {"qid", "query"} \subseteq topics.columns

\* The results of a stream that the configured filter lets through.
Survivors(stream) ==
    IF cfg.filter_unknown
    THEN SelectSeq(stream, LAMBDA r : r.trec_id # "None")
    ELSE stream

\* The first num_results survivors, all of them without a cap.
Expected(stream) ==
    IF cfg.num_results.isNone THEN Survivors(stream)
    ELSE Take(Survivors(stream), cfg.num_results.n)

SameResults(table, results) ==
    /\ Len(table) = Len(results)
    /\ \A k \in 1..Len(table) :
        /\ table[k].docno = results[k].trec_id
        /\ table[k].score = results[k].score

\* C1: the table a per-query transform returns holds, in order, the first
\* N results of the stream after the absent-id results were removed (if
\* filter_unknown) -- filter before limit, at most N rows -- and the rows
\* merged so far are always a prefix of that.
C1_FilterThenLimit ==
    /\ \A i \in 1..Len(frames) :
        /\ SameResults(frames[i], Expected(served[i].items))
        /\ cfg.num_results.isNone \/ Len(frames[i]) <= cfg.num_results.n
    /\ pc = "iterate" =>
        SameResults(rows,
            Take(Expected(served[Len(served)].items), Len(rows)))

\* A query finished with filtering on, an absent-id result ahead of the
\* one that filled the cap.
C1_Witness ==
    \E i \in 1..Len(frames) :
        /\ cfg.filter_unknown
        /\ cfg.num_results = Cap(1)
        /\ Len(served[i].items) = 2
        /\ served[i].items[1].trec_id = "None"
        /\ Len(frames[i]) = 1
        /\ frames[i][1].docno = "d1"

GroupOf(table, q) == {i \in 1..Len(table) : table[i].qid = q}

\* C2: in a returned table every row has a rank, the ranks of each query
\* group are exactly 0..k-1, and within a group a strictly higher score
\* has a strictly lower rank.
C2_RanksPerGroup ==
    pc = "done" =>
        /\ \A i \in 1..Len(out) : "rank" \in DOMAIN out[i]
        /\ \A i \in 1..Len(out) :
            LET g == GroupOf(out, out[i].qid)
            IN /\ {out[j].rank : j \in g} = 0..(Cardinality(g) - 1)
               /\ \A j \in g :
                    out[j].score > out[i].score => out[j].rank < out[i].rank

\* A returned table with two query groups, one of them holding a lower
\* score ahead of a higher one.
C2_Witness ==
    /\ pc = "done"
    /\ Cardinality({out[i].qid : i \in 1..Len(out)}) = 2
    /\ \E i, j \in 1..Len(out) :
        /\ i < j
        /\ out[i].qid = out[j].qid
        /\ out[i].score < out[j].score
        /\ out[i].rank = 1
        /\ out[j].rank = 0

\* C3: the rows of a returned table are in non-increasing score order.
C3_SortedByScore ==
    pc = "done" =>
        \A i, j \in 1..Len(out) : i < j => out[i].score >= out[j].score

SharesQid ==
    \E i, j \in 1..Len(topics.rows) :
        i # j /\ topics.rows[i].qid = topics.rows[j].qid

\* C4: a batch whose rows share a query id is not rejected by the
\* per-query transform for holding more than one row of a query.
C4_SharedQidAccepted ==
    (ValidInput /\ SharesQid) => err # OneQueryError

\* The atomic flags of the effective feature set.
EffectiveFeatures == UNION Elems(cfg.features.items)

\* C5: every merged row has the topic's columns, docno, score and exactly
\* the columns of the atomic flags of the effective feature set.
C5_ColumnsOfEffectiveFeatures ==
    \A r \in Elems(rows) \cup Elems(Flatten(frames)) :
        DOMAIN r =
            topics.columns \cup {"docno", "score"}
                \cup {FeatureColumn[a] : a \in EffectiveFeatures}

\* C6: an input that is not a table, or a table without the qid or the
\* query column, makes transform raise its input error; no search request
\* is made and no table is returned.
C6_InputErrors ==
    ~ValidInput =>
        /\ pc \in {"start", "error"}
        /\ requests = <<>>
        /\ out = <<>>
        /\ pc = "error" =>
            err = (IF topics.isFrame THEN ColumnsError ELSE NotFrameError)

\* transform has raised for a table without the query column.
C6_Witness ==
    /\ pc = "error"
    /\ topics.isFrame
    /\ topics.columns = {"qid"}
    /\ Len(topics.rows) = 1
    /\ err = ColumnsError

\* C7: for a table with the required columns and no rows transform
\* returns an empty table, without an error and without a search request.
C7_EmptyInputEmptyTable ==
    (ValidInput /\ Len(topics.rows) = 0 /\ pc # "start") =>
        /\ pc = "done"
        /\ err = "none"
        /\ out = <<>>
        /\ requests = <<>>

\* C8: hashing succeeds for both instances, and instances that are equal
\* have equal hashes.
C8_EqualHashEqual ==
    Len(hashes) = 2 =>
        /\ hashes[1].ok
        /\ hashes[2].ok
        /\ Eq(cfg, cfg2) => hashes[1] = hashes[2]

\* C9: every search request carries the configured retries and
\* backoff_seconds.
C9_RetryPassThrough ==
    \A i \in 1..Len(requests) :
        /\ "retries" \in DOMAIN requests[i]
        /\ requests[i].retries = cfg.retries
        /\ "backoff_seconds" \in DOMAIN requests[i]
        /\ requests[i].backoff_seconds = cfg.backoff_seconds

\* Number of survivors among the first k elements.
SurvivorsIn(stream, k) == Len(Survivors(SubSeq(stream, 1, k)))

\* Length of the shortest prefix holding num_results survivors; the whole
\* stream when there is no cap or there are fewer survivors.
Needed(stream) ==
    IF cfg.num_results.isNone
        \/ SurvivorsIn(stream, Len(stream)) < cfg.num_results.n
    THEN Len(stream)
    ELSE CHOOSE k \in 0..Len(stream) :
            /\ SurvivorsIn(stream, k) = cfg.num_results.n
            /\ \A m \in 0..(k - 1) :
                SurvivorsIn(stream, m) < cfg.num_results.n

\* C10: each request asks for page size min(page_size, num_results) (the
\* page_size without a cap); no stream is pulled beyond the shortest
\* prefix holding num_results survivors, and a finished query has pulled
\* exactly that prefix.
C10_NoOverFetch ==
    /\ \A i \in 1..Len(requests) :
        IF cfg.num_results.isNone
        THEN requests[i].page_size = cfg.page_size
        ELSE /\ requests[i].page_size <= cfg.page_size
             /\ requests[i].page_size <= cfg.num_results.n
             /\ requests[i].page_size \in {cfg.page_size, cfg.num_results.n}
    /\ \A i \in 1..Len(served) :
        /\ served[i].pulled <= Needed(served[i].items)
        /\ i <= Len(frames) => served[i].pulled = Needed(served[i].items)

\* A query finished at its cap with an element of the stream left
\* unpulled.
C10_Witness ==
    \E i \in 1..Len(frames) :
        /\ ~cfg.num_results.isNone
        /\ Len(frames[i]) = cfg.num_results.n
        /\ served[i].pulled >= 1
        /\ served[i].pulled < Len(served[i].items)

====
